---------------------------- MODULE Spec2Model ----------------------------
(***************************************************************************)
(* SiteShare (share_website.py): the request-routing and proxy core.       *)
(*                                                                         *)
(* run_server validates the shared directory, chooses the handler (static  *)
(* file serving or PHP proxy), changes into the shared directory, binds    *)
(* the port and serves.  Each accepted connection is handled by a fresh    *)
(* handler object on a thread of its own (ThreadingHTTPServer).            *)
(*                                                                         *)
(* File-system paths and URL paths are sequences of segment names; "/" is  *)
(* the empty sequence.  Text that is serialised (the body of               *)
(* /siteshare-info.json) is a sequence of symbols: the characters ', " and *)
(* \ stand for themselves, every other symbol is a run of ordinary         *)
(* characters.                                                             *)
(***************************************************************************)
EXTENDS Integers, Sequences, FiniteSets, TLC

(***************************************************************************)
(* Bounds of the model.                                                     *)
(***************************************************************************)
\* longest request path, in segments
MaxPathLen == 2
\* most index/default files present in the shared directory
MaxIndexFiles == 2
\* handler threads alive at once in the concurrent specification
NumWorkers == 2
\* most bind attempts of one run of run_server that are followed
MaxAttempts == 5

(***************************************************************************)
(* Program constants.                                                       *)
(***************************************************************************)
\* Python's None, for a port (find_php_server's "return None")
None == -1
\* PHP_SERVER_PORTS = [80, 8888, 8080, 8000]
PHP_SERVER_PORTS == <<80, 8888, 8080, 8000>>
\* max_retries = 3
max_retries == 3
\* the default of run_server's port argument
DefaultPort == 8000
\* HTTPStatus.OK, NOT_FOUND, INTERNAL_SERVER_ERROR
OK == 200
NOT_FOUND == 404
INTERNAL_SERVER_ERROR == 500

VERSION == "1.0.0"
InfoPath == <<"siteshare-info.json">>

\* the index-file list of the root-path rewrite (proxy_request, line 201)
RewriteIndexFiles ==
    <<"index.php", "index.html", "index.htm",
      "default.php", "default.html", "default.htm">>
\* the index-file list of the landing-page checks (lines 272 and 372)
LandingIndexFiles ==
    <<"index.html", "index.htm", "index.php",
      "default.html", "default.htm", "default.php">>

Range(s) == {s[i] : i \in DOMAIN s}

IndexNames == Range(LandingIndexFiles)

(***************************************************************************)
(* The environment's inputs.                                                *)
(***************************************************************************)
\* the directories main() can hand to run_server (always absolute)
Directories == {<<"www", "demo">>, <<"www", "o'neil">>}
\* where the process is started, and where the script (and welcome.html) is
OriginalCwd == <<"home">>
ScriptDir == <<"opt", "siteshare">>

Workers == 1 .. NumWorkers

PathSegments == {"..", "a.php"}
SeqsUpTo(S, n) == UNION {[1 .. k -> S] : k \in 0 .. n}
Paths == SeqsUpTo(PathSegments, MaxPathLen) \cup {InfoPath}

Methods == {"GET", "POST", "HEAD"}

\* the Server header of an answer: absent, or its text as symbols
NoHeader == <<>>
ServerHeaders ==
    {NoHeader, <<"Apache", "/2.4">>, <<"NGINX">>, <<"SimpleHTTP", "/0.6">>}

\* what one probe of find_php_server meets on a candidate port:
\*   conn: connect_ex returns 0 ("open") or an error code ("refused"), or
\*         the socket raises ("raises");
\*   http: urlopen returns the answer ("ok"), raises HTTPError for a 4xx/5xx
\*         answer ("HTTPError") or raises for a timeout or a protocol error
\*         ("timeout");
\*   server: the Server header of the answer
ProbeResults ==
    [conn : {"refused", "raises"}, http : {"none"}, server : {NoHeader}]
    \cup [conn : {"open"}, http : {"HTTPError"}, server : {<<"Apache", "/2.4">>}]
    \cup [conn : {"open"}, http : {"timeout"}, server : {NoHeader}]
    \cup [conn : {"open"}, http : {"ok"}, server : ServerHeaders]

\* the state of welcome.html next to the script
WelcomeStates == {"present", "absent", "unopenable"}

FileSets == {F \in SUBSET IndexNames : Cardinality(F) <= MaxIndexFiles}

\* IPv4 addresses, as their four numbers
NoAddress == <<>>
Loopback == <<127, 0, 0, 1>>
\* the source address of the route to 8.8.8.8 (getsockname after connect)
RouteAddresses == {<<192, 168, 1, 100>>, <<10, 0, 0, 255>>}
\* what gethostbyname(gethostname()) answers; NoAddress: it raises gaierror
HostAddresses == {Loopback, <<127, 0, 1, 1>>, <<192, 168, 1, 100>>}
\* what the probes of get_local_ip meet
NetOutcomes ==
    [socket : {"ok", "OSError"}, connect : {"ok", "OSError"},
     sockname : RouteAddresses, hostname : HostAddresses \cup {NoAddress}]

VARIABLES
    \* --- the environment ---
    dirExists,        \* os.path.isdir(abs_dir_initial)
    indexFiles,       \* the index/default files present in the shared directory
    welcome,          \* the state of welcome.html
    probes,           \* per candidate port: what a probe of it meets
    net,              \* what the probes of get_local_ip meet
    \* --- run_server ---
    directory,        \* the directory argument
    php_mode_arg,     \* the php_mode argument as passed
    port_arg,         \* the port argument as passed
    php_mode,         \* the local php_mode (forced to False on fallback)
    php_server_port,  \* the local php_server_port
    final_php_mode,
    handler,          \* "none" | "PHPProxyHandler" | "SiteShareHandler"
    PHP_php_server_port,  \* PHPProxyHandler.php_server_port (class attribute)
    PHP_directory,        \* PHPProxyHandler.directory
    PHP_script_dir,       \* PHPProxyHandler.script_dir
    probed,           \* the candidate ports find_php_server probed, in order
    cwd,              \* the process working directory
    original_cwd,
    port,
    retries,
    attempts,         \* bind attempts made so far
    in_use,           \* bind attempts that failed with EADDRINUSE
    invalid,          \* replies at the prompt that were no valid port
    last_error,       \* the error of the latest bind attempt, or "none"
    last_reply,       \* the latest reply at the prompt: <<kind, number typed>>
    local_ip,         \* get_local_ip's result (line 499)
    sock,             \* get_local_ip's probe socket: "none" | "open" | "closed"
    srv_pc,           \* where run_server is
    exit_status,      \* the argument of a pending sys.exit, or None
    raised,           \* the exception leaving run_server that is no SystemExit
    \* --- main and the script ---
    main_pc,          \* "run_server" | "returned" | "terminated"
    exit_code,        \* main's return value
    process_status,   \* the exit status of the process, or None while it runs
    \* --- the handler threads ---
    req               \* per worker: the request being handled and its response

envVars == <<dirExists, indexFiles, welcome, probes, net>>
argVars == <<directory, php_mode_arg, port_arg>>
modeVars == <<php_mode, php_server_port, final_php_mode, handler,
              PHP_php_server_port, PHP_directory, PHP_script_dir, probed>>
bindVars == <<port, retries, attempts, in_use, invalid, last_error, last_reply>>
ipVars == <<local_ip, sock>>
mainVars == <<main_pc, exit_code, process_status>>
srvVars == <<argVars, modeVars, cwd, original_cwd, bindVars, ipVars, srv_pc,
             exit_status, raised, mainVars>>
vars == <<envVars, srvVars, req>>

NoDir == <<>>
\* no reply yet at the prompt
NoReply == <<"none", None>>

(***************************************************************************)
(* find_php_server: the candidate ports are probed in order; a candidate   *)
(* qualifies when the port is open and the Server header of its answer     *)
(* names apache, php or nginx.  Every failure on a candidate is swallowed   *)
(* and the next candidate is probed.                                        *)
(***************************************************************************)
ProbeEnvs == [Range(PHP_SERVER_PORTS) -> ProbeResults]

\* str.lower() of a symbol (symbols without capitals are their own lower)
lower(sym) ==
    CASE sym = "Apache" -> "apache"
      [] sym = "NGINX" -> "nginx"
      [] sym = "SimpleHTTP" -> "simplehttp"
      [] sym = "Transfer-Encoding" -> "transfer-encoding"
      [] sym = "CONNECTION" -> "connection"
      [] sym = "Connection" -> "connection"
      [] sym = "Content-Encoding" -> "content-encoding"
      [] sym = "Content-Type" -> "content-type"
      [] sym = "Set-Cookie" -> "set-cookie"
      [] OTHER -> sym

\* str.title() of a header name
title(sym) ==
    CASE sym = "connection" -> "Connection"
      [] sym = "transfer-encoding" -> "Transfer-Encoding"
      [] OTHER -> sym

\* word in text.lower(), for a word that is one symbol
InLower(word, text) == \E i \in DOMAIN text : lower(text[i]) = word

\* lines 72-79: the port is open, urlopen answers, and the Server header
\* names apache, php or nginx
IsPhpServer(r) ==
    /\ r.conn = "open"
    /\ r.http = "ok"
    /\ \/ InLower("apache", r.server)
       \/ InLower("php", r.server)
       \/ InLower("nginx", r.server)

\* faulty variant: an error on a candidate ends the detection with None
RECURSIVE ProbeFromAbortOnError(_, _)
ProbeFromAbortOnError(env, i) ==
    IF i > Len(PHP_SERVER_PORTS) THEN None
    ELSE IF IsPhpServer(env[PHP_SERVER_PORTS[i]]) THEN PHP_SERVER_PORTS[i]
    ELSE IF env[PHP_SERVER_PORTS[i]].conn = "raises"
            \/ env[PHP_SERVER_PORTS[i]].http \in {"HTTPError", "timeout"}
    THEN None
    ELSE ProbeFromAbortOnError(env, i + 1)

\* lines 66-86: the loop over the candidates, from the i-th on
RECURSIVE ProbeFrom(_, _)
ProbeFrom(env, i) ==
    IF i > Len(PHP_SERVER_PORTS) THEN None
    ELSE IF IsPhpServer(env[PHP_SERVER_PORTS[i]]) THEN PHP_SERVER_PORTS[i]
    ELSE ProbeFrom(env, i + 1)

find_php_server(env) == ProbeFrom(env, 1)

\* the ports the loop connects to, in the order it does
RECURSIVE ProbeLogFrom(_, _)
ProbeLogFrom(env, i) ==
    IF i > Len(PHP_SERVER_PORTS) THEN <<>>
    ELSE <<PHP_SERVER_PORTS[i]>>
         \o (IF IsPhpServer(env[PHP_SERVER_PORTS[i]]) THEN <<>>
             ELSE ProbeLogFrom(env, i + 1))

\* faulty variant: no loopback fallback when the hostname does not resolve
get_local_ip_no_fallback(n) ==
    [ip |-> IF n.socket = "ok" /\ n.connect = "ok" THEN n.sockname
            ELSE n.hostname,
     sock |-> IF n.socket = "ok" THEN "closed" ELSE "none"]

\* lines 128-158: the address and what became of the probe socket (there is
\* none when socket.socket itself raised)
get_local_ip(n) ==
    [ip |-> IF n.socket = "ok" /\ n.connect = "ok" THEN n.sockname
            ELSE IF n.hostname # NoAddress THEN n.hostname
            ELSE Loopback,
     sock |-> IF n.socket = "ok" THEN "closed" ELSE "none"]

\* Python truthiness of a port-or-None
Truthy(p) == p # None /\ p # 0

(***************************************************************************)
(* run_server                                                               *)
(***************************************************************************)
abs_dir_initial == directory

\* a worker with no connection: the fields of a request and of its response
IdleReq ==
    [pc |-> "idle", method |-> "", orig |-> <<>>, path |-> <<>>, clen |-> "",
     target |-> <<>>, bk |-> "none", bstatus |-> 0, copy |-> "none",
     wfail |-> FALSE, heads |-> <<>>, body |-> <<>>, ret |-> "",
     hdrs |-> {}, fwd |-> {}, bhdrs |-> {}, rhdrs |-> {}]

\* a probe that finds the port closed, and one that finds Apache
Refused == [conn |-> "refused", http |-> "none", server |-> NoHeader]
FoundApache == [conn |-> "open", http |-> "ok", server |-> <<"Apache", "/2.4">>]
NoServer == [p \in Range(PHP_SERVER_PORTS) |-> Refused]

\* the machines run_server is started on: no backend, or one on some port
StartupProbeEnvs ==
    {NoServer}
    \cup {[NoServer EXCEPT ![p] = FoundApache] : p \in {80, 8080}}
    \cup {[NoServer EXCEPT
             ![80] = [conn |-> "raises", http |-> "none", server |-> NoHeader],
             ![8888] = [conn |-> "open", http |-> "HTTPError",
                        server |-> <<"Apache", "/2.4">>],
             ![8080] = [conn |-> "open", http |-> "ok", server |-> <<"NGINX">>],
             ![8000] = FoundApache]}

\* the network: up; down with the hostname resolving; down without
NetUp ==
    [socket |-> "ok", connect |-> "ok", sockname |-> <<192, 168, 1, 100>>,
     hostname |-> <<127, 0, 1, 1>>]
NetDown ==
    [socket |-> "ok", connect |-> "OSError", sockname |-> <<192, 168, 1, 100>>,
     hostname |-> NoAddress]
StartupNets == {NetUp, NetDown}

\* run_server not yet called, and main waiting for it (line 728)
NotStarted ==
    /\ probed = <<>>
    /\ attempts = 0
    /\ in_use = 0
    /\ invalid = 0
    /\ last_error = "none"
    /\ last_reply = NoReply
    /\ local_ip = NoAddress
    /\ sock = "none"
    /\ raised = "none"
    /\ main_pc = "run_server"
    /\ exit_code = None
    /\ process_status = None

\* the process before run_server is called (line 728), on the given
\* machines and with the given arguments
BeforeRunServer(dirs, fileSets, welcomes, probeEnvs, nets, modes, ports) ==
    /\ dirExists \in BOOLEAN
    /\ indexFiles \in fileSets
    /\ welcome \in welcomes
    /\ probes \in probeEnvs
    /\ net \in nets
    /\ NotStarted
    /\ directory \in dirs
    /\ php_mode_arg \in modes
    /\ php_mode = php_mode_arg
    /\ php_server_port = None
    /\ final_php_mode = FALSE
    /\ handler = "none"
    /\ PHP_php_server_port = None
    /\ PHP_directory = NoDir
    /\ PHP_script_dir = NoDir
    /\ cwd = OriginalCwd
    /\ original_cwd = NoDir
    /\ port_arg \in ports
    /\ port = port_arg
    /\ retries = 0
    /\ srv_pc = "validate"
    /\ exit_status = None
    /\ req = [w \in Workers |-> IdleReq]

\* run_server looks at no file of the shared directory: two contents do
StartupFileSets == {{}, {"index.php"}}

InitStartup ==
    BeforeRunServer(Directories, StartupFileSets, WelcomeStates,
                    StartupProbeEnvs, StartupNets, BOOLEAN, {DefaultPort})

\* faulty variant: a missing directory is reported and run_server carries on
ValidateDirectoryCarryOn ==
    /\ srv_pc = "validate"
    /\ srv_pc' = "mode"
    /\ UNCHANGED <<envVars, argVars, modeVars, cwd, original_cwd, bindVars,
                   ipVars, exit_status, raised, mainVars, req>>

\* lines 439-447: the directory must exist; sys.exit(1) before anything else
ValidateDirectory ==
    /\ srv_pc = "validate"
    /\ IF dirExists
       THEN /\ srv_pc' = "mode"
            /\ UNCHANGED exit_status
       ELSE /\ srv_pc' = "exited"
            /\ exit_status' = 1
    /\ UNCHANGED <<envVars, argVars, modeVars, cwd, original_cwd, bindVars,
                   ipVars, raised, mainVars, req>>

\* lines 449-465: the backend is looked for only when PHP mode is requested
DetermineMode ==
    /\ srv_pc = "mode"
    /\ IF php_mode
       THEN /\ php_server_port' = find_php_server(probes)
            /\ final_php_mode' = Truthy(find_php_server(probes))
            /\ php_mode' = Truthy(find_php_server(probes))
            /\ probed' = ProbeLogFrom(probes, 1)
       ELSE UNCHANGED <<php_server_port, final_php_mode, php_mode, probed>>
    /\ srv_pc' = "handler"
    /\ UNCHANGED <<envVars, argVars, handler, PHP_php_server_port, PHP_directory,
                   PHP_script_dir, cwd, original_cwd, bindVars, ipVars,
                   exit_status, raised, mainVars, req>>

\* faulty variant: the proxy handler is chosen whenever PHP mode was requested
UseProxyWheneverRequested == php_mode_arg

\* line 469: the test that selects the proxy handler
UseProxy == final_php_mode /\ Truthy(php_server_port)

\* lines 468-482
CreateHandler ==
    /\ srv_pc = "handler"
    /\ IF UseProxy
       THEN /\ PHP_php_server_port' = php_server_port
            /\ PHP_directory' = directory
            /\ PHP_script_dir' = ScriptDir
            /\ handler' = "PHPProxyHandler"
       ELSE /\ handler' = "SiteShareHandler"
            /\ UNCHANGED <<PHP_php_server_port, PHP_directory, PHP_script_dir>>
    /\ srv_pc' = "chdir"
    /\ UNCHANGED <<envVars, argVars, php_mode, php_server_port, final_php_mode,
                   probed, cwd, original_cwd, bindVars, ipVars, exit_status,
                   raised, mainVars, req>>

\* lines 485-492; os.chdir raises OSError when the directory cannot be entered
ChangeDirectory ==
    /\ srv_pc = "chdir"
    /\ original_cwd' = cwd
    /\ \E entered \in BOOLEAN :
         IF entered
         THEN /\ cwd' = abs_dir_initial
              /\ retries' = 0
              /\ srv_pc' = "bind"
              /\ UNCHANGED raised
         ELSE /\ raised' = "OSError"
              /\ srv_pc' = "finally"
              /\ UNCHANGED <<cwd, retries>>
    /\ UNCHANGED <<envVars, argVars, modeVars, port, attempts, in_use, invalid,
                   last_error, last_reply, ipVars, exit_status, mainVars, req>>

BindOutcomes == {"bound", "EADDRINUSE", "EACCES", "OSError", "Exception"}

\* faulty variant: a permission error is retried like a port conflict
RetryableOrDenied(outcome) == outcome \in {"EADDRINUSE", "EACCES"}

\* line 517: the errors that are retried
Retryable(outcome) == outcome = "EADDRINUSE"

\* faulty variant: every port conflict is followed by the prompt
BudgetLeftAlways(n) == TRUE

\* line 520: the prompt is shown while the budget is not used up
BudgetLeft(n) == n < max_retries

\* lines 494-499 and 516-549: one bind attempt of the retry loop
Bind ==
    /\ srv_pc = "bind"
    /\ retries < max_retries
    /\ attempts < MaxAttempts
    /\ attempts' = attempts + 1
    /\ \E outcome \in BindOutcomes :
         /\ last_error' = IF outcome = "bound" THEN "none" ELSE outcome
         /\ CASE outcome = "bound" ->
                   /\ srv_pc' = "serving"
                   /\ local_ip' = get_local_ip(net).ip
                   /\ sock' = get_local_ip(net).sock
                   /\ UNCHANGED <<retries, in_use, exit_status>>
              [] Retryable(outcome) ->
                   /\ retries' = retries + 1
                   /\ in_use' = in_use + 1
                   /\ IF BudgetLeft(retries + 1)
                      THEN srv_pc' = "prompt" /\ UNCHANGED exit_status
                      ELSE srv_pc' = "finally" /\ exit_status' = 1
                   /\ UNCHANGED ipVars
              [] OTHER ->
                   /\ srv_pc' = "finally"
                   /\ exit_status' = 1
                   /\ UNCHANGED <<retries, in_use, ipVars>>
    /\ UNCHANGED <<envVars, argVars, modeVars, cwd, original_cwd, port, invalid,
                   last_reply, raised, mainVars, req>>

\* what the user may do at the prompt: press Enter, type a number or
\* something else, press Ctrl+C, or have closed the input
Replies == {"empty", "ValueError", "int", "KeyboardInterrupt", "EOFError"}
TypedPorts == {0, 8080, 65535, 65536}

\* faulty variant: whatever number is typed becomes the port
ValidPortAny(n) == TRUE

\* line 529: the numbers accepted as a port
ValidPort(n) == 1 <= n /\ n <= 65535

\* lines 521-538: the reply to "Enter a different port"
Prompt ==
    /\ srv_pc = "prompt"
    /\ \E reply \in Replies, new_port \in TypedPorts :
         /\ last_reply' = <<reply, IF reply = "int" THEN new_port ELSE None>>
         /\ CASE reply = "empty" ->
                   /\ srv_pc' = "finally"
                   /\ exit_status' = 1
                   /\ UNCHANGED <<port, retries, invalid, raised>>
              [] reply = "ValueError" ->
                   /\ retries' = retries - 1
                   /\ invalid' = invalid + 1
                   /\ srv_pc' = "bind"
                   /\ UNCHANGED <<port, exit_status, raised>>
              [] reply = "int" ->
                   /\ IF ValidPort(new_port)
                      THEN port' = new_port /\ UNCHANGED <<retries, invalid>>
                      ELSE /\ retries' = retries - 1
                           /\ invalid' = invalid + 1
                           /\ UNCHANGED port
                   /\ srv_pc' = "bind"
                   /\ UNCHANGED <<exit_status, raised>>
              [] OTHER ->
                   \* input() raises inside the handler of line 516: neither
                   \* the handler of line 536 nor those of lines 551 and 556
                   \* apply
                   /\ raised' = reply
                   /\ srv_pc' = "finally"
                   /\ UNCHANGED <<port, retries, invalid, exit_status>>
    /\ UNCHANGED <<envVars, argVars, modeVars, cwd, original_cwd, attempts,
                   in_use, last_error, ipVars, mainVars, req>>

\* lines 514 and 551-559: serve_forever ends by Ctrl+C or by an exception
StopServing ==
    /\ srv_pc = "serving"
    /\ \A w \in Workers : req[w].pc = "idle"
    /\ \E how \in {"KeyboardInterrupt", "Exception"} :
         IF how = "KeyboardInterrupt"
         THEN UNCHANGED exit_status
         ELSE exit_status' = 1
    /\ srv_pc' = "finally"
    /\ UNCHANGED <<envVars, argVars, modeVars, cwd, original_cwd, bindVars,
                   ipVars, raised, mainVars, req>>

\* faulty variant: run_server ends without going back to where it was
FinallyStayInShared ==
    /\ srv_pc = "finally"
    /\ srv_pc' = IF raised # "none" THEN "raised"
                 ELSE IF exit_status = None THEN "returned" ELSE "exited"
    /\ UNCHANGED <<envVars, argVars, modeVars, cwd, original_cwd, bindVars,
                   ipVars, exit_status, raised, mainVars, req>>

\* lines 565-570: the working directory is restored on every way out (the
\* directory run_server was called in is taken to be still there)
Finally ==
    /\ srv_pc = "finally"
    /\ cwd' = original_cwd
    /\ srv_pc' = IF raised # "none" THEN "raised"
                 ELSE IF exit_status = None THEN "returned" ELSE "exited"
    /\ UNCHANGED <<envVars, argVars, modeVars, original_cwd, bindVars, ipVars,
                   exit_status, raised, mainVars, req>>

\* lines 727-740: main after run_server: 0 when it returned or was stopped by
\* Ctrl+C, 1 for an exception; a SystemExit is caught and passed over, and
\* main runs off its end (returns None)
MainReturn ==
    /\ main_pc = "run_server"
    /\ srv_pc \in {"returned", "exited", "raised"}
    /\ exit_code' = CASE srv_pc = "returned" -> 0
                      [] srv_pc = "exited" -> None
                      [] raised = "KeyboardInterrupt" -> 0
                      [] OTHER -> 1
    /\ main_pc' = "returned"
    /\ UNCHANGED <<envVars, argVars, modeVars, cwd, original_cwd, bindVars,
                   ipVars, srv_pc, exit_status, raised, process_status, req>>

\* line 746: sys.exit(exit_code); sys.exit(None) is exit status 0
ProcessExit ==
    /\ main_pc = "returned"
    /\ process_status' = IF exit_code = None THEN 0 ELSE exit_code
    /\ main_pc' = "terminated"
    /\ UNCHANGED <<envVars, argVars, modeVars, cwd, original_cwd, bindVars,
                   ipVars, srv_pc, exit_status, raised, exit_code, req>>

NextStartup ==
    \/ ValidateDirectory
    \/ DetermineMode
    \/ CreateHandler
    \/ ChangeDirectory
    \/ Bind
    \/ Prompt
    \/ StopServing
    \/ Finally
    \/ MainReturn
    \/ ProcessExit

SpecStartup == InitStartup /\ [][NextStartup]_vars

\* --- the detection alone, on every machine ---
InitDetect ==
    BeforeRunServer({<<"www", "demo">>}, {{}}, {"present"}, ProbeEnvs, {NetUp},
                    {TRUE}, {DefaultPort})

NextDetect ==
    \/ ValidateDirectory
    \/ DetermineMode
    \/ CreateHandler

SpecDetect == InitDetect /\ [][NextDetect]_vars

\* --- run_server on every network ---
InitLocalIp ==
    BeforeRunServer({<<"www", "demo">>}, {{}}, {"present"}, {NoServer},
                    NetOutcomes, {FALSE}, {DefaultPort})

SpecLocalIp == InitLocalIp /\ [][NextStartup]_vars

\* --- run_server called with any port ---
\* the port argument: 0 (the OS picks a port), the least, the default, the most
InitialPorts == {0, 1, DefaultPort, 65535}

InitBind ==
    BeforeRunServer({<<"www", "demo">>}, {{}}, {"present"}, {NoServer}, {NetUp},
                    {FALSE}, InitialPorts)

SpecBind == InitBind /\ [][NextStartup]_vars

(***************************************************************************)
(* Text: Python's repr of a str and of the info dict, and the replace of   *)
(* ' by " that is meant to turn the dict's repr into JSON.                  *)
(***************************************************************************)
SQ == "'"
DQ == "\""
BS == "\\"

RECURSIVE Flatten(_)
Flatten(ss) == IF ss = <<>> THEN <<>> ELSE Head(ss) \o Flatten(Tail(ss))

\* the symbols of a segment name
NameSyms(n) == IF n = "o'neil" THEN <<"o", SQ, "neil">> ELSE <<n>>

\* the symbols of an absolute path
PathSyms(dir) == Flatten([i \in DOMAIN dir |-> <<"/">> \o NameSyms(dir[i])])

\* repr(str): double quotes when the text holds ' and no ", else single
\* quotes; the quote in use and the backslash are escaped
ReprStr(syms) ==
    LET q == IF SQ \in Range(syms) /\ DQ \notin Range(syms) THEN DQ ELSE SQ
        Esc(c) == IF c = BS THEN <<BS, BS>>
                  ELSE IF c = q THEN <<BS, c>>
                  ELSE <<c>>
    IN  <<q>> \o Flatten([i \in DOMAIN syms |-> Esc(syms[i])]) \o <<q>>

\* repr(dict) of items <<key symbols, repr of the value>>
ReprDict(items) ==
    <<"{">>
    \o Flatten([i \in DOMAIN items |->
                  (IF i = 1 THEN <<>> ELSE <<", ">>)
                  \o ReprStr(items[i][1]) \o <<": ">> \o items[i][2]])
    \o <<"}">>

\* str.replace("'", '"')
ReplaceQuotes(syms) == [i \in DOMAIN syms |-> IF syms[i] = SQ THEN DQ ELSE syms[i]]

\* lines 357-362: the body of /siteshare-info.json in static mode
StaticInfoBody(dir) ==
    ReplaceQuotes(ReprDict(<<
        <<(<<"directory">>), ReprStr(PathSyms(dir))>>,
        <<(<<"version">>), ReprStr(<<VERSION>>)>>,
        <<(<<"mode">>), ReprStr(<<"Static Files">>)>> >>))

\* lines 188-194: the body of /siteshare-info.json in proxy mode
ProxyInfoBody(dir, p) ==
    ReplaceQuotes(ReprDict(<<
        <<(<<"directory">>), ReprStr(PathSyms(dir))>>,
        <<(<<"version">>), ReprStr(<<VERSION>>)>>,
        <<(<<"mode">>), ReprStr(<<"PHP Proxy">>)>>,
        <<(<<"php_port">>), <<ToString(p)>> >> >>))

(***************************************************************************)
(* Paths.                                                                   *)
(***************************************************************************)
\* os.path.basename(os.path.normpath(directory)) of an absolute directory
base_dir_name(dir) == dir[Len(dir)]

\* str.endswith('.php') of an index-file name or a path's last segment
EndsWithPhp(name) == name \in {"index.php", "default.php", "a.php"}

\* the first name of the list that exists, or "" when none does
RECURSIVE FirstExistingFrom(_, _, _)
FirstExistingFrom(list, files, i) ==
    IF i > Len(list) THEN ""
    ELSE IF list[i] \in files THEN list[i]
    ELSE FirstExistingFrom(list, files, i + 1)

FirstExisting(list, files) == FirstExistingFrom(list, files, 1)

\* the index/default files os.path.exists finds under directory d
FilesAt(d) == IF d = directory THEN indexFiles ELSE {}

\* faulty variant: the rewrite walks the list of the landing-page checks, which
\* starts with index.html
RewriteRootLandingOrder(path, files) ==
    IF path = <<>> /\ EndsWithPhp(FirstExisting(LandingIndexFiles, files))
    THEN <<FirstExisting(LandingIndexFiles, files)>>
    ELSE path

\* faulty variant: the loop goes on past an index file that is no .php file,
\* and "/" becomes the first existing .php name
RewriteRootFirstPhp(path, files) ==
    IF path = <<>> /\ FirstExisting(<<"index.php", "default.php">>, files) # ""
    THEN <<FirstExisting(<<"index.php", "default.php">>, files)>>
    ELSE path

\* lines 199-208: "/" becomes "/<name>" when the first existing index file
\* of the list ends in .php
RewriteRoot(path, files) ==
    IF path = <<>> /\ EndsWithPhp(FirstExisting(RewriteIndexFiles, files))
    THEN <<FirstExisting(RewriteIndexFiles, files)>>
    ELSE path

\* lines 212-216: the path of target_url
TargetPath(dir, path) == <<base_dir_name(dir)>> \o path

\* faulty variant: the landing-page check looks for the .html index files only
has_index_html_only(files) == FirstExisting(<<"index.html", "index.htm">>, files) # ""

\* lines 271-277 and 370-379
has_index(files) == FirstExisting(LandingIndexFiles, files) # ""

(***************************************************************************)
(* The handlers.  A response is the sequence of response heads (status     *)
(* line and headers) written to the client, in order.                       *)
(***************************************************************************)
HeadOf(status, kind) == [status |-> status, kind |-> kind]

ContentLengths == {"ok", "bad"}

\* a header: its name as sent and its value
Header(n, v) == [name |-> n, value |-> v]

\* the headers a client may send besides Content-Length
ClientHeaders ==
    {Header("transfer-encoding", "chunked"), Header("Connection", "keep-alive"),
     Header("Cookie", "sid=1")}
ClientHeaderSets == SUBSET ClientHeaders
PlainClientHeaderSets == {{Header("Cookie", "sid=1")}}

\* the names of the headers a backend may answer with
BackendHeaders ==
    {"Transfer-Encoding", "CONNECTION", "content-encoding", "Content-Type",
     "Set-Cookie"}
BackendHeaderSets == SUBSET BackendHeaders
PlainBackendHeaderSets == {{"Content-Type"}}

\* a connection is accepted and its request line and headers are parsed
\* (the request is drawn from the given methods, paths, Content-Lengths and
\* sets of headers)
AcceptFrom(w, methods, paths, lengths, headerSets) ==
    /\ srv_pc = "serving"
    /\ req[w].pc = "idle"
    /\ \E m \in methods, p \in paths, cl \in lengths, hs \in headerSets :
         req' = [req EXCEPT ![w] =
                   [IdleReq EXCEPT !.pc = "received", !.method = m,
                                   !.orig = p, !.path = p, !.clen = cl,
                                   !.hdrs = hs]]
    /\ UNCHANGED <<envVars, srvVars>>

\* SimpleHTTPRequestHandler's answer from disk: for the root, index.html or
\* index.htm if there, else the directory listing; for another path, the file
\* if found (".." segments are dropped by translate_path)
SimpleHead(path, files, found) ==
    IF path = <<>>
    THEN IF "index.html" \in files \/ "index.htm" \in files
         THEN HeadOf(OK, "file")
         ELSE HeadOf(OK, "listing")
    ELSE IF found THEN HeadOf(OK, "file") ELSE HeadOf(NOT_FOUND, "error")

\* faulty variant: a built-in placeholder stands in for a welcome.html that is
\* absent or cannot be opened
WelcomeHeadsOrPlaceholder(w) ==
    IF w = "present" THEN <<[status |-> OK, kind |-> "welcome"]>>
    ELSE <<[status |-> OK, kind |-> "placeholder"]>>

\* lines 381-394: the heads written by the attempt to serve welcome.html:
\* nothing when it is absent or cannot be opened, else the 200 head
WelcomeHeads(w) ==
    IF w = "present" THEN <<HeadOf(OK, "welcome")>> ELSE <<>>

\* faulty variant: do_GET without the landing-page branch: the root goes to the
\* default handler like any other path
StaticDoGETNoLanding(rq, files, wfail, found) ==
    IF rq.path = InfoPath
    THEN [rq EXCEPT !.pc = "done", !.heads = <<HeadOf(OK, "info")>>,
                    !.body = StaticInfoBody(cwd), !.ret = "normal"]
    ELSE [rq EXCEPT !.pc = "done", !.ret = "normal",
                    !.heads = <<SimpleHead(rq.path, files, found)>>]

\* lines 351-401: SiteShareHandler.do_GET.  wfail: reading or writing the
\* landing page fails after its head was sent; found: the file is on disk
StaticDoGET(rq, files, wfail, found) ==
    IF rq.path = InfoPath
    THEN [rq EXCEPT !.pc = "done", !.heads = <<HeadOf(OK, "info")>>,
                    !.body = StaticInfoBody(cwd), !.ret = "normal"]
    ELSE IF rq.path = <<>> /\ ~has_index(files)
            /\ WelcomeHeads(welcome) # <<>> /\ ~wfail
    THEN [rq EXCEPT !.pc = "done", !.heads = WelcomeHeads(welcome),
                    !.ret = "normal"]
    ELSE \* line 401: super().do_GET(), also after a landing page that failed
         [rq EXCEPT !.pc = "done",
                    !.wfail = (rq.path = <<>> /\ ~has_index(files)
                               /\ WelcomeHeads(welcome) # <<>>),
                    !.heads = (IF rq.path = <<>> /\ ~has_index(files)
                               THEN WelcomeHeads(welcome) ELSE <<>>)
                              \o <<SimpleHead(rq.path, files, found)>>,
                    !.ret = "normal"]

\* a request to the static handler: do_GET is SiteShare's, HEAD is served by
\* SimpleHTTPRequestHandler, POST is not implemented
StaticRequest(w) ==
    /\ srv_pc = "serving"
    /\ handler = "SiteShareHandler"
    /\ req[w].pc = "received"
    /\ \E wfail \in BOOLEAN, found \in BOOLEAN :
         req' = [req EXCEPT ![w] =
                   IF req[w].method = "GET"
                   THEN StaticDoGET(req[w], FilesAt(cwd), wfail, found)
                   ELSE [req[w] EXCEPT
                           !.pc = "done", !.ret = "normal",
                           !.heads = IF req[w].method = "HEAD"
                                     THEN <<SimpleHead(req[w].path, FilesAt(cwd), found)>>
                                     ELSE <<HeadOf(501, "error")>>]]
    /\ UNCHANGED <<envVars, srvVars>>

\* what urlopen and the copy of the body can meet
SuccessStatuses == {OK}
ErrorStatuses == {NOT_FOUND, 503}
\* the copy of the backend's body to the client: it completes; the backend
\* read times out or the client is gone (socket.timeout, ConnectionResetError
\* and BrokenPipeError are caught and logged); or the backend's body is cut
\* short (http.client.IncompleteRead, which the inner handler does not catch)
CopyOutcomes == {"ok", "backend_timeout", "client_gone", "backend_incomplete"}
CopyCaught(c) == c \in {"backend_timeout", "client_gone"}

\* the exchanges with the given copy outcomes and sets of backend headers
ExchangesOf(copies, headerSets) ==
    [kind : {"response"}, status : SuccessStatuses, copy : copies,
     hdrs : headerSets]
    \cup [kind : {"HTTPError"}, status : ErrorStatuses, copy : copies,
          hdrs : headerSets]
    \cup [kind : {"exception"}, status : {0}, copy : {"none"}, hdrs : {{}}]

Exchanges == ExchangesOf(CopyOutcomes, PlainBackendHeaderSets)

\* dict assignment headers[n] = v
SetHeader(hs, n, v) == {h \in hs : h.name # n} \cup {Header(n, v)}

\* lines 224-229: the headers handed to urllib.request.Request: a copy of all
\* the client's headers, with two set for a .php path
RequestHeaders(hs, path) ==
    IF path # <<>> /\ EndsWithPhp(path[Len(path)])
    THEN SetHeader(SetHeader(hs, "X-Requested-With", "XMLHttpRequest"),
                   "Accept", "text/html,application/xhtml+xml,application/xml")
    ELSE hs

\* what urllib sends (AbstractHTTPHandler.do_open): Connection is set to
\* close and the names are title-cased
SentHeaders(hs) ==
    LET titled == {Header(title(h.name), h.value) : h \in hs}
    IN  SetHeader(titled, "Connection", "close")

\* faulty variant: the names are compared as the backend wrote them
RelayedHeadersCaseSensitive(hs) ==
    {h \in hs : h \notin {"transfer-encoding", "connection", "content-encoding"}}

\* lines 250-253 and 298-300: the backend's headers that are sent on
RelayedHeaders(hs) ==
    {h \in hs :
       lower(h) \notin {"transfer-encoding", "connection", "content-encoding"}}

\* faulty variant: the rewritten path is stored on the handler class, which every
\* request being handled shares
StorePathOnClass(rqs, w, p) ==
    [v \in DOMAIN rqs |->
       IF rqs[v].pc \in {"received", "forwarding"} THEN [rqs[v] EXCEPT !.path = p]
       ELSE rqs[v]]

\* line 207: self.path is an attribute of the handler object of this request
StorePath(rqs, w, p) == [rqs EXCEPT ![w].path = p]

\* lines 182-195: the info endpoint, answered before anything else
ProxyInfo(rq) ==
    [rq EXCEPT !.pc = "done", !.heads = <<HeadOf(OK, "info")>>,
               !.body = ProxyInfoBody(PHP_directory, PHP_php_server_port),
               !.ret = "normal"]

\* lines 197-220: the root rewrite and the target URL
ProxyRoute(rq, files) ==
    [rq EXCEPT !.pc = "forwarding",
               !.target = TargetPath(PHP_directory, RewriteRoot(rq.path, files))]

ProxyPrepare(w) ==
    /\ srv_pc = "serving"
    /\ handler = "PHPProxyHandler"
    /\ req[w].pc = "received"
    /\ IF req[w].path = InfoPath
       THEN req' = [req EXCEPT ![w] = ProxyInfo(req[w])]
       ELSE req' = StorePath([req EXCEPT ![w] = ProxyRoute(req[w], FilesAt(cwd))],
                             w, RewriteRoot(req[w].path, FilesAt(cwd)))
    /\ UNCHANGED <<envVars, srvVars>>

\* faulty variant: the landing page is tried on a 403 instead of a 404
LandingHeadsOnForbidden(rq, files, x) ==
    IF x.status = 403 /\ rq.path = <<>> /\ ~has_index(files)
    THEN WelcomeHeads(welcome)
    ELSE <<>>

\* lines 269-293: the landing page replaces a 404 for "/" when no index file
\* exists; the heads it writes before line 297 is reached (or not)
LandingHeads(rq, files, x) ==
    IF x.status = NOT_FOUND /\ rq.path = <<>> /\ ~has_index(files)
    THEN WelcomeHeads(welcome)
    ELSE <<>>

\* line 290: the return after the landing page was written
LandingServed(rq, files, x, wfail) ==
    LandingHeads(rq, files, x) # <<>> /\ ~wfail

\* faulty variant: without the handler of line 308: a failure that is no HTTPError
\* leaves proxy_request as an exception and nothing is written
ProxyRespondNoCatchAll(rq, files, x, wfail) ==
    [rq EXCEPT !.pc = "done",
               !.bk = IF rq.clen = "bad" THEN "badlength" ELSE x.kind,
               !.bstatus = x.status, !.copy = x.copy,
               !.heads = IF rq.clen = "bad" \/ x.kind = "exception" THEN <<>>
                         ELSE <<HeadOf(x.status, "relay")>>,
               !.ret = IF rq.clen = "bad" \/ x.kind = "exception"
                       THEN "raised" ELSE "normal"]

\* lines 222-311: the exchange with the backend and the response.
\* x: what urlopen and the copy meet; wfail: reading or writing the landing
\* page fails after its head was sent
ProxyRespond(rq, files, x, wfail) ==
    LET r0 == [rq EXCEPT !.pc = "done", !.bk = x.kind, !.bstatus = x.status,
                         !.copy = x.copy, !.ret = "normal",
                         !.fwd = SentHeaders(RequestHeaders(rq.hdrs, rq.path)),
                         !.bhdrs = x.hdrs]
    IN
    IF rq.clen = "bad"
    THEN \* line 232: int() raises ValueError, caught at line 308
         [rq EXCEPT !.pc = "done", !.bk = "badlength", !.ret = "normal",
                    !.heads = <<HeadOf(INTERNAL_SERVER_ERROR, "error")>>]
    ELSE IF x.kind = "exception"
    THEN [r0 EXCEPT !.heads = <<HeadOf(INTERNAL_SERVER_ERROR, "error")>>]
    ELSE IF x.kind = "response"
    THEN \* lines 244-261; an exception the copy does not catch reaches line 308
         [r0 EXCEPT !.rhdrs = RelayedHeaders(x.hdrs),
                    !.heads =
              <<HeadOf(x.status, "relay")>>
              \o (IF x.copy = "ok" \/ CopyCaught(x.copy) THEN <<>>
                  ELSE <<HeadOf(INTERNAL_SERVER_ERROR, "error")>>)]
    ELSE IF LandingServed(rq, files, x, wfail)
    THEN [r0 EXCEPT !.heads = LandingHeads(rq, files, x), !.copy = "none"]
    ELSE \* lines 295-306; an exception raised in this handler leaves proxy_request
         [r0 EXCEPT !.wfail = (LandingHeads(rq, files, x) # <<>>),
                    !.rhdrs = RelayedHeaders(x.hdrs),
                    !.heads = LandingHeads(rq, files, x)
                              \o <<HeadOf(x.status, "relay")>>,
                    !.ret = IF x.copy = "ok" \/ CopyCaught(x.copy)
                            THEN "normal" ELSE "raised"]

ProxyExchangeFrom(w, exchanges) ==
    /\ srv_pc = "serving"
    /\ handler = "PHPProxyHandler"
    /\ req[w].pc = "forwarding"
    /\ \E x \in exchanges, wfail \in BOOLEAN :
         req' = [req EXCEPT ![w] = ProxyRespond(req[w], FilesAt(cwd), x, wfail)]
    /\ UNCHANGED <<envVars, srvVars>>

\* the handler object is discarded and the thread ends
Finish(w) ==
    /\ req[w].pc = "done"
    /\ req' = [req EXCEPT ![w] = IdleReq]
    /\ UNCHANGED <<envVars, srvVars>>

(***************************************************************************)
(* The server while it serves: the states run_server reaches at line 514,  *)
(* for the given directories, index-file sets, welcome.html states and      *)
(* detected backend ports.                                                  *)
(***************************************************************************)
Serving(dirs, fileSets, welcomes, proxyPorts) ==
    /\ dirExists = TRUE
    /\ indexFiles \in fileSets
    /\ welcome \in welcomes
    /\ directory \in dirs
    /\ \E p \in proxyPorts \cup {None} :
         /\ php_server_port = p
         /\ php_mode_arg \in (IF p = None THEN BOOLEAN ELSE {TRUE})
         /\ php_mode = (p # None)
         /\ final_php_mode = (p # None)
         /\ handler = IF p # None THEN "PHPProxyHandler" ELSE "SiteShareHandler"
         /\ PHP_php_server_port = p
         /\ PHP_directory = IF p # None THEN directory ELSE NoDir
         /\ PHP_script_dir = IF p # None THEN ScriptDir ELSE NoDir
    /\ cwd = directory
    /\ original_cwd = OriginalCwd
    /\ port_arg = DefaultPort
    /\ port = DefaultPort
    /\ retries = 0
    /\ last_reply = NoReply
    /\ probes = (IF php_server_port = None THEN NoServer
                 ELSE [NoServer EXCEPT ![php_server_port] = FoundApache])
    /\ probed = (IF php_mode_arg THEN ProbeLogFrom(probes, 1) ELSE <<>>)
    /\ net = NetUp
    /\ attempts = 1
    /\ in_use = 0
    /\ invalid = 0
    /\ last_error = "none"
    /\ local_ip = get_local_ip(net).ip
    /\ sock = get_local_ip(net).sock
    /\ srv_pc = "serving"
    /\ exit_status = None
    /\ raised = "none"
    /\ main_pc = "run_server"
    /\ exit_code = None
    /\ process_status = None
    /\ req = [w \in Workers |-> IdleReq]

\* --- one connection at a time, every input ---
InitServe == Serving(Directories, FileSets, WelcomeStates, Range(PHP_SERVER_PORTS))

Handle(w) ==
    \/ AcceptFrom(w, Methods, Paths, ContentLengths, PlainClientHeaderSets)
    \/ StaticRequest(w)
    \/ ProxyPrepare(w)
    \/ ProxyExchangeFrom(w, Exchanges)
    \/ Finish(w)

NextServe == Handle(1)

SpecServe == InitServe /\ [][NextServe]_vars

\* --- concurrent connections, each handled by a thread of its own ---
ConcFileSets == {{}, {"index.php"}, {"index.html"}}
ConcPaths == {<<>>, <<"a.php">>, InfoPath}
ConcExchanges ==
    {[kind |-> "response", status |-> OK, copy |-> "ok",
      hdrs |-> {"Content-Type"}],
     [kind |-> "HTTPError", status |-> NOT_FOUND, copy |-> "ok",
      hdrs |-> {"Content-Type"}]}

InitConc == Serving({<<"www", "demo">>}, ConcFileSets, WelcomeStates, {8080})

HandleConc(w) ==
    \/ AcceptFrom(w, {"GET"}, ConcPaths, {"ok"}, PlainClientHeaderSets)
    \/ StaticRequest(w)
    \/ ProxyPrepare(w)
    \/ ProxyExchangeFrom(w, ConcExchanges)
    \/ Finish(w)

NextConc == \E w \in Workers : HandleConc(w)

SpecConc == InitConc /\ [][NextConc]_vars

\* --- one connection at a time, every set of headers ---
RelayFileSets == {{}, {"index.php"}}
RelayPaths == {<<>>, <<"a.php">>}

InitRelay == Serving({<<"www", "demo">>}, RelayFileSets, {"present"}, {8080})

HandleRelay(w) ==
    \/ AcceptFrom(w, {"GET", "POST"}, RelayPaths, ContentLengths, ClientHeaderSets)
    \/ StaticRequest(w)
    \/ ProxyPrepare(w)
    \/ ProxyExchangeFrom(w, ExchangesOf({"ok", "backend_incomplete"}, BackendHeaderSets))
    \/ Finish(w)

NextRelay == HandleRelay(1)

SpecRelay == InitRelay /\ [][NextRelay]_vars

(***************************************************************************)
(* JSON, as far as the info body needs it: an object of string keys whose  *)
(* values are strings or numbers.                                           *)
(***************************************************************************)
Tok(k, v) == [k |-> k, v |-> v]

\* the tokens of a text: strings (with \" and \\ as the escapes), and every
\* symbol outside a string on its own; "bad" for an unfinished string or an
\* escape JSON does not have
RECURSIVE JsonLex(_, _, _, _)
JsonLex(t, i, inStr, cur) ==
    IF i > Len(t)
    THEN IF inStr THEN <<Tok("bad", <<>>)>> ELSE <<>>
    ELSE IF inStr
    THEN IF t[i] = DQ
         THEN <<Tok("str", cur)>> \o JsonLex(t, i + 1, FALSE, <<>>)
         ELSE IF t[i] = BS
         THEN IF i + 1 <= Len(t) /\ t[i + 1] \in {DQ, BS}
              THEN JsonLex(t, i + 2, TRUE, cur \o <<t[i + 1]>>)
              ELSE <<Tok("bad", <<>>)>>
         ELSE JsonLex(t, i + 1, TRUE, cur \o <<t[i]>>)
    ELSE IF t[i] = DQ
    THEN JsonLex(t, i + 1, TRUE, <<>>)
    ELSE <<Tok("sym", <<t[i]>>)>> \o JsonLex(t, i + 1, FALSE, <<>>)

IsSym(tok, c) == tok = Tok("sym", <<c>>)
IsNumber(tok) ==
    tok.k = "sym" /\ tok.v[1] \in {ToString(n) : n \in Range(PHP_SERVER_PORTS)}
IsValue(tok) == tok.k = "str" \/ IsNumber(tok)

\* the members from token i on, up to the closing brace: the set of
\* <<key, value>> pairs, or {<<"bad">>} when the tokens are no object
RECURSIVE JsonMembers(_, _)
JsonMembers(ts, i) ==
    IF i + 3 <= Len(ts) /\ ts[i].k = "str" /\ IsSym(ts[i + 1], ": ")
       /\ IsValue(ts[i + 2])
    THEN IF i + 3 = Len(ts) /\ IsSym(ts[i + 3], "}")
         THEN {<<ts[i].v, ts[i + 2].v>>}
         ELSE IF IsSym(ts[i + 3], ", ")
         THEN LET rest == JsonMembers(ts, i + 4)
              IN  IF <<"bad">> \in rest THEN rest
                  ELSE rest \cup {<<ts[i].v, ts[i + 2].v>>}
         ELSE {<<"bad">>}
    ELSE {<<"bad">>}

JsonObject(t) ==
    LET ts == JsonLex(t, 1, FALSE, <<>>)
    IN  IF Len(ts) >= 2 /\ IsSym(ts[1], "{")
        THEN JsonMembers(ts, 2)
        ELSE {<<"bad">>}

IsJson(t) == <<"bad">> \notin JsonObject(t)

\* the text is a JSON object whose field key has the value v
JsonHas(t, key, v) == IsJson(t) /\ <<(<<key>>), <<v>> >> \in JsonObject(t)

ModeName == IF handler = "PHPProxyHandler" THEN "PHP Proxy" ELSE "Static Files"

Done(w) == req[w].pc = "done"
InfoGet(w) == Done(w) /\ req[w].orig = InfoPath /\ req[w].method = "GET"

\* C1: in both modes a GET for /siteshare-info.json is answered, before any
\* other handling, with status 200 and a JSON body whose mode field names
\* the mode the server runs in; it is neither forwarded nor served from disk.
C1_InfoEndpoint ==
    \A w \in Workers :
      InfoGet(w) =>
        /\ req[w].heads = <<HeadOf(OK, "info")>>
        /\ req[w].bk = "none" /\ req[w].target = <<>>
        /\ JsonHas(req[w].body, "mode", ModeName)

\* the part of C1 that the code keeps: status 200, the info head alone,
\* nothing forwarded, and valid JSON whenever the directory's path holds
\* no quote character
C1_InfoEndpointPlainDirectory ==
    \A w \in Workers :
      InfoGet(w) =>
        /\ req[w].heads = <<HeadOf(OK, "info")>>
        /\ req[w].bk = "none" /\ req[w].target = <<>>
        /\ (SQ \notin Range(PathSyms(directory))
              => JsonHas(req[w].body, "mode", ModeName))

(***************************************************************************)
(* The backend's resolution of a forwarded path.                            *)
(***************************************************************************)
\* dot-segment removal (RFC 3986, 5.2.4): ".." drops the segment before it
RECURSIVE RemoveDotSegments(_, _)
RemoveDotSegments(segs, acc) ==
    IF segs = <<>> THEN acc
    ELSE IF Head(segs) = ".."
    THEN RemoveDotSegments(Tail(segs),
                           IF acc = <<>> THEN acc ELSE SubSeq(acc, 1, Len(acc) - 1))
    ELSE RemoveDotSegments(Tail(segs), Append(acc, Head(segs)))

InsideShared(target) ==
    LET n == RemoveDotSegments(target, <<>>)
    IN  Len(n) >= 1 /\ n[1] = base_dir_name(directory)

Proxy == handler = "PHPProxyHandler"
Static == handler = "SiteShareHandler"
Forwarded(w) == Proxy /\ req[w].pc \in {"forwarding", "done"} /\ req[w].target # <<>>

\* C2: in proxy mode every forwarded URL resolves, after dot-segment
\* normalisation, inside /<baseDirName>/: nothing is forwarded to a backend
\* URL outside the shared directory's subtree.
C2_ForwardedInsideShared ==
    \A w \in Workers : Forwarded(w) => InsideShared(req[w].target)

\* what the code does keep (lines 212-216): the forwarded path is the base
\* directory name followed by the request path as received or rewritten
C2_ForwardedIsBasePlusPath ==
    \A w \in Workers :
      Forwarded(w) => req[w].target = <<base_dir_name(directory)>> \o req[w].path

(***************************************************************************)
(* run_server's choice of handler.                                          *)
(***************************************************************************)
HandlerChosen == handler # "none"
DetectorFoundPort == php_server_port # None

\* C3: run_server selects the proxy handler if and only if PHP mode was
\* requested and the backend detector returned a port, and the static handler
\* in every other case; wherever the proxy handler serves, its backend port
\* is set (one of the candidate ports, not None).
C3_ProxyIffRequestedAndDetected ==
    /\ HandlerChosen =>
         /\ Proxy <=> (php_mode_arg /\ DetectorFoundPort)
         /\ Static <=> ~(php_mode_arg /\ DetectorFoundPort)
    /\ (srv_pc = "serving" /\ Proxy) =>
         /\ PHP_php_server_port # None
         /\ PHP_php_server_port \in Range(PHP_SERVER_PORTS)
         /\ PHP_php_server_port = php_server_port

\* PHP mode was requested and a backend was found on 8080: the proxy serves
C3_ProxyServing ==
    srv_pc = "serving" /\ Proxy /\ php_mode_arg /\ PHP_php_server_port = 8080

\* PHP mode was requested, no backend was found: the static handler serves
C3_DegradedToStatic ==
    srv_pc = "serving" /\ Static /\ php_mode_arg /\ ~DetectorFoundPort

\* every state in which run_server serves is one the serving specifications
\* start from, but for the port bound and the retries spent
ServingStatesAreServing ==
    srv_pc = "serving" =>
      /\ dirExists /\ cwd = directory /\ original_cwd = OriginalCwd
      /\ exit_status = None
      /\ \E p \in Range(PHP_SERVER_PORTS) \cup {None} :
           /\ php_server_port = p
           /\ php_mode_arg \in (IF p = None THEN BOOLEAN ELSE {TRUE})
           /\ php_mode = (p # None)
           /\ final_php_mode = (p # None)
           /\ handler = IF p # None THEN "PHPProxyHandler" ELSE "SiteShareHandler"
           /\ PHP_php_server_port = p
           /\ PHP_directory = IF p # None THEN directory ELSE NoDir
           /\ PHP_script_dir = IF p # None THEN ScriptDir ELSE NoDir

(***************************************************************************)
(* What requests share.                                                     *)
(***************************************************************************)
\* the values run_server fixes before it serves
ShareConfig ==
    <<handler, PHP_php_server_port, PHP_directory, PHP_script_dir,
      directory, cwd, php_mode, final_php_mode, php_server_port>>

\* the step is w's own: its handler is created, advances or is discarded
OwnStep(w) == req[w].pc # req'[w].pc

\* C4: while the server serves, no request modifies the handler (mode), the
\* backend port, the shared directory or the script directory, and a
\* request's path changes only by a step of that request itself: the
\* rewrite of "/" by one request is never seen by another.
C4_RequestsShareNothingMutable ==
    [][srv_pc = "serving" =>
         /\ UNCHANGED ShareConfig
         /\ \A w \in Workers :
              /\ req[w] # req'[w] => OwnStep(w)
              /\ req[w].path # req'[w].path =>
                   \/ req[w].pc = "idle" \/ req'[w].pc = "idle"
                   \/ /\ req[w].pc = "received" /\ req'[w].pc = "forwarding"
                      /\ req[w].path = <<>>
                      /\ req'[w].path = RewriteRoot(<<>>, indexFiles)
         /\ \A w \in Workers :
              (Proxy /\ req'[w].pc = "forwarding") =>
                 req'[w].target = TargetPath(directory, req'[w].path)]_vars

\* one request has had its "/" rewritten to /index.php and is being
\* forwarded while another, also for "/", has not been routed yet
C4_RewriteWhileOtherPending ==
    \E w, v \in Workers :
      /\ w # v
      /\ Proxy
      /\ req[w].pc = "forwarding" /\ req[w].orig = <<>>
      /\ req[w].path = <<"index.php">>
      /\ req[v].pc = "received" /\ req[v].path = <<>>

(***************************************************************************)
(* The landing page.                                                        *)
(***************************************************************************)
NoIndexFile == indexFiles \cap IndexNames = {}
Landing == HeadOf(OK, "welcome")
Listing == HeadOf(OK, "listing")
Relay(status) == HeadOf(status, "relay")

\* a GET for "/" to the static handler, answered
StaticRootGet(w) ==
    Static /\ Done(w) /\ req[w].method = "GET" /\ req[w].orig = <<>>

\* a request for "/" to the proxy that the backend answered with 404
ProxyRoot404(w) ==
    /\ Proxy /\ Done(w) /\ req[w].orig = <<>>
    /\ req[w].bk = "HTTPError" /\ req[w].bstatus = NOT_FOUND

Qualifies(w) == NoIndexFile /\ (StaticRootGet(w) \/ ProxyRoot404(w))
AssetMissing == welcome \in {"absent", "unopenable"}

C7_Relayed404ForMissingAsset ==
    \E w \in Workers :
      Qualifies(w) /\ Proxy /\ welcome = "unopenable"
      /\ req[w].heads = <<Relay(NOT_FOUND)>>

HasLandingHead(w) == \E i \in DOMAIN req[w].heads : req[w].heads[i].kind = "welcome"

\* C8: in proxy mode the landing page is sent only if the backend returned
\* 404, the request path is "/" and no index/default file exists; with an
\* index file a 404 for the root is relayed as 404, and every other backend
\* HTTP error is relayed with the backend's status.
C8_LandingOnlyForRoot404WithoutIndex ==
    \A w \in Workers :
      (Proxy /\ Done(w)) =>
        /\ HasLandingHead(w) =>
             /\ req[w].bk = "HTTPError" /\ req[w].bstatus = NOT_FOUND
             /\ req[w].orig = <<>> /\ req[w].path = <<>>
             /\ NoIndexFile
        /\ (req[w].bk = "HTTPError"
            /\ (~NoIndexFile \/ req[w].bstatus # NOT_FOUND \/ req[w].orig # <<>>))
             => req[w].heads = <<Relay(req[w].bstatus)>>

\* an index file other than index.php exists and the backend's 404 for "/"
\* is relayed
C8_Root404RelayedWithIndex ==
    \E w \in Workers :
      /\ ProxyRoot404(w) /\ indexFiles = {"default.html"}
      /\ req[w].heads = <<Relay(NOT_FOUND)>>

\* C9: in proxy mode, with index.php in the shared directory, a request for
\* "/" is forwarded as a request for index.php, never as the bare directory,
\* and the status the backend answers with is the status relayed.
C9_RootForwardedAsIndexPhp ==
    \A w \in Workers :
      (Forwarded(w) /\ req[w].orig = <<>> /\ "index.php" \in indexFiles) =>
        /\ req[w].path = <<"index.php">>
        /\ req[w].target = <<base_dir_name(directory), "index.php">>
        /\ (Done(w) /\ req[w].bk \in {"response", "HTTPError"})
             => req[w].heads[1] = Relay(req[w].bstatus)

C9_IndexPhpAnswered ==
    \E w \in Workers :
      /\ Forwarded(w) /\ Done(w) /\ req[w].orig = <<>>
      /\ indexFiles = {"index.html", "index.php"}
      /\ req[w].bk = "HTTPError" /\ req[w].bstatus = NOT_FOUND
      /\ req[w].heads = <<Relay(NOT_FOUND)>>

\* the exchange failed before any head was written: Content-Length is no
\* number, or urlopen raised something that is no HTTPError
FailedBeforeHead(w) == req[w].bk \in {"badlength", "exception"}
\* the backend's body stopped coming while it was copied
FailedInBody(w) == req[w].copy \in {"backend_timeout", "backend_incomplete"}

\* C10 (as claimed): any failure to reach or talk to the backend that is no
\* HTTP error response results in a 500 response, and the handler returns.
C10_BackendFailureIs500 ==
    \A w \in Workers :
      (Proxy /\ Done(w) /\ (FailedBeforeHead(w) \/ FailedInBody(w))) =>
        /\ req[w].heads = <<HeadOf(INTERNAL_SERVER_ERROR, "error")>>
        /\ req[w].ret = "normal"

\* C10 (amended): a failure before the response head is written (an
\* unparsable Content-Length, or urlopen failing without an HTTP error
\* response) results in one response, a 500, and the handler returns.
C10_FailureBeforeHeadIs500 ==
    \A w \in Workers :
      (Proxy /\ Done(w) /\ FailedBeforeHead(w)) =>
        /\ req[w].heads = <<HeadOf(INTERNAL_SERVER_ERROR, "error")>>
        /\ req[w].ret = "normal"

C10_BackendUnreachable ==
    \E w \in Workers :
      /\ Proxy /\ Done(w) /\ req[w].bk = "exception"
      /\ req[w].heads = <<HeadOf(INTERNAL_SERVER_ERROR, "error")>>

(***************************************************************************)
(* The backend detector.                                                    *)
(***************************************************************************)
\* find_php_server has returned to run_server
Detected == php_mode_arg /\ srv_pc \notin {"validate", "mode"} /\ dirExists

\* the answers that should count as a PHP-capable server: the port is open,
\* the answer is no error, and its Server header names Apache or nginx in
\* whatever case
ExpectedMatch(r) ==
    /\ r.conn = "open"
    /\ r.http = "ok"
    /\ r.server \in {<<"Apache", "/2.4">>, <<"NGINX">>}

MatchingCandidates ==
    {i \in DOMAIN PHP_SERVER_PORTS : ExpectedMatch(probes[PHP_SERVER_PORTS[i]])}

\* C11: find_php_server probes the candidates 80, 8888, 8080, 8000 in that
\* order and returns the first that is open and answers with a Server header
\* containing apache, php or nginx (in any case); a connect failure, HTTP
\* error or timeout on a candidate does not end the detection (every
\* candidate before the match is probed, and all of them when none matches);
\* it returns None when no candidate qualifies.
C11_FirstQualifyingCandidate ==
    Detected =>
      /\ PHP_SERVER_PORTS = <<80, 8888, 8080, 8000>>
      /\ IF MatchingCandidates = {}
         THEN php_server_port = None /\ probed = PHP_SERVER_PORTS
         ELSE \E i \in MatchingCandidates :
                /\ \A j \in MatchingCandidates : i <= j
                /\ php_server_port = PHP_SERVER_PORTS[i]
                /\ probed = SubSeq(PHP_SERVER_PORTS, 1, i)

\* the socket raises on 80, 8888 answers with an HTTP error, 8080 times out,
\* and 8000 is found
C11_FoundAfterThreeFailures ==
    /\ Detected
    /\ probes[80].conn = "raises"
    /\ probes[8888].http = "HTTPError"
    /\ probes[8080].http = "timeout"
    /\ probes[8000].server = <<"NGINX">>
    /\ php_server_port = 8000
    /\ probed = PHP_SERVER_PORTS

(***************************************************************************)
(* Binding the port.                                                        *)
(***************************************************************************)
Leaving == srv_pc \in {"finally", "exited"}

\* C12: a bind failure with EACCES is terminal: run_server exits with status
\* 1 at once, without prompting for another port and without another bind
\* attempt, however many EADDRINUSE retries came before.
C12_PermissionDeniedIsTerminal ==
    [][last_error' = "EACCES" =>
         /\ exit_status' = 1
         /\ raised' = "none"
         /\ Leaving'
         /\ last_error = "EACCES" => UNCHANGED <<attempts, port, retries, invalid>>]_vars

\* permission was denied on the third attempt, after two port conflicts
C12_DeniedAfterTwoRetries ==
    /\ srv_pc = "exited"
    /\ last_error = "EACCES"
    /\ in_use = 2
    /\ attempts = 3
    /\ exit_status = 1

\* C13 (as claimed): over any sequence of user replies, the number of bind
\* attempts that fail with EADDRINUSE never exceeds 3, and on the budget being
\* reached run_server exits with status 1 without prompting again.
C13_InUseFailuresAtMostBudget ==
    /\ in_use <= max_retries
    /\ retries = max_retries => (Leaving /\ exit_status = 1)

\* C13 (amended): a reply that is no valid port gives its retry back, so the
\* budget bounds the EADDRINUSE failures less the invalid replies: that
\* number is the retry counter, it never exceeds 3, the prompt is shown only
\* below 3, and at 3 run_server exits with status 1 without prompting again.
C13_CountedRetriesAtMostBudget ==
    /\ retries = in_use - invalid
    /\ in_use - invalid <= max_retries
    /\ srv_pc = "prompt" => retries < max_retries
    /\ retries = max_retries =>
         (Leaving /\ exit_status = 1 /\ last_error = "EADDRINUSE")

\* three port conflicts, each reply a valid port: run_server has exited
C13_BudgetExhausted ==
    /\ srv_pc = "exited"
    /\ in_use = 3
    /\ invalid = 0
    /\ attempts = 3
    /\ exit_status = 1

(***************************************************************************)
(* The root directory.                                                      *)
(***************************************************************************)
\* C16: a missing or non-directory root is fatal before anything else
\* happens: run_server exits with status 1 without running the backend
\* detection, without changing the working directory and without a bind
\* attempt.
C16_MissingRootIsFatalFirst ==
    ~dirExists =>
      /\ srv_pc \in {"validate", "exited"}
      /\ srv_pc = "exited" => (exit_status = 1 /\ raised = "none")
      /\ probed = <<>> /\ php_server_port = None /\ handler = "none"
      /\ cwd = OriginalCwd /\ original_cwd = NoDir
      /\ attempts = 0

\* PHP mode was requested for a directory that is not there
C16_ExitedOnMissingRoot ==
    ~dirExists /\ php_mode_arg /\ srv_pc = "exited" /\ exit_status = 1

(***************************************************************************)
(* The exit status of the process.                                          *)
(***************************************************************************)
Terminated == main_pc = "terminated"
\* run_server ended by one of its sys.exit(1)
ErrorExit == srv_pc = "exited" /\ exit_status = 1

\* C17: whenever run_server ends through an error exit (directory not found,
\* permission denied, retry budget exhausted, empty port reply, unexpected
\* OS error), the exit status of the process is not zero.
C17_ErrorExitIsNonZero ==
    (Terminated /\ ErrorExit) => process_status # 0

\* what the code does: main passes over the SystemExit and returns None, and
\* the process ends with status 0
C17_ErrorExitEndsWithZero ==
    (Terminated /\ ErrorExit) => (exit_code = None /\ process_status = 0)

(***************************************************************************)
(* The address shown to the user.                                           *)
(***************************************************************************)
\* get_local_ip has returned (line 499)
IpKnown == attempts > 0 /\ last_error = "none"
RouteProbeSucceeded == net.socket = "ok" /\ net.connect = "ok"

\* four parts, each a number in 0..255
DottedQuad(ip) == Len(ip) = 4 /\ \A i \in 1 .. 4 : ip[i] \in 0 .. 255

\* C18: get_local_ip returns a dotted-quad IPv4 address for every outcome of
\* its probes: the probe socket's own address when the route probe succeeds
\* (not 127.0.0.1), otherwise the hostname's address, otherwise 127.0.0.1;
\* the probe socket is closed on every path.
C18_LocalIpIsDottedQuad ==
    IpKnown =>
      /\ DottedQuad(local_ip)
      /\ RouteProbeSucceeded => (local_ip = net.sockname /\ local_ip # Loopback)
      /\ (~RouteProbeSucceeded /\ net.hostname # NoAddress)
           => local_ip = net.hostname
      /\ (~RouteProbeSucceeded /\ net.hostname = NoAddress)
           => local_ip = Loopback
      /\ sock # "open"
      /\ net.socket = "ok" => sock = "closed"

\* the network is unreachable and the hostname does not resolve
C18_LoopbackFallback ==
    /\ srv_pc = "serving"
    /\ net.socket = "ok" /\ net.connect = "OSError" /\ net.hostname = NoAddress
    /\ local_ip = Loopback
    /\ sock = "closed"

(***************************************************************************)
(* The working directory.                                                   *)
(***************************************************************************)
RunServerOver == srv_pc \in {"returned", "exited", "raised"}

\* C19: run_server changes the working directory to the shared directory
\* only after directory validation and mode selection, and on every way out
\* of the serving phase (Ctrl+C, sys.exit from a bind error or an empty
\* reply, an unexpected exception) the working directory is again what it
\* was before the call.
C19_CwdChangedLateAndRestored ==
    /\ srv_pc \in {"validate", "mode", "handler", "chdir"} => cwd = OriginalCwd
    /\ cwd # OriginalCwd =>
         /\ cwd = directory /\ dirExists /\ handler # "none"
         /\ original_cwd = OriginalCwd
         /\ srv_pc \in {"bind", "prompt", "serving", "finally"}
    /\ RunServerOver => cwd = OriginalCwd

\* Ctrl+C at the prompt for another port: the exception leaves run_server
\* past its handlers, and the working directory is restored
C19_RestoredAfterCtrlCAtPrompt ==
    /\ srv_pc = "raised"
    /\ raised = "KeyboardInterrupt"
    /\ in_use = 1
    /\ original_cwd = OriginalCwd
    /\ cwd = OriginalCwd

(***************************************************************************)
(* The headers the proxy passes on.                                         *)
(***************************************************************************)
\* the backend answered, so the request was sent
BackendAnswered(w) ==
    Proxy /\ Done(w) /\ req[w].bk \in {"response", "HTTPError"}

HopByHopRequestNames ==
    {"transfer-encoding", "Transfer-Encoding", "connection", "Connection"}

\* the forwarded header h is one the client sent, name and value
FromClient(h, w) ==
    \E c \in req[w].hdrs : title(c.name) = title(h.name) /\ c.value = h.value

\* C14: in proxy mode the headers sent to the backend are a copy of the
\* client's request headers with Transfer-Encoding and Connection removed:
\* no forwarded request carries either header taken from the client, and
\* every other header of the client is forwarded.
C14_HopByHopNotForwarded ==
    \A w \in Workers :
      BackendAnswered(w) =>
        /\ \A h \in req[w].fwd :
             h.name \in HopByHopRequestNames => ~FromClient(h, w)
        /\ \A c \in req[w].hdrs :
             c.name \notin HopByHopRequestNames =>
               \E h \in req[w].fwd : FromClient(h, w) /\ h.value = c.value

\* what the code does: every header of the client is handed to urllib, which
\* replaces Connection by "Connection: close"; Transfer-Encoding is sent on
C14_AllButConnectionForwarded ==
    \A w \in Workers :
      BackendAnswered(w) =>
        /\ \A c \in req[w].hdrs :
             title(c.name) # "Connection" =>
               Header(title(c.name), c.value) \in req[w].fwd
        /\ \A h \in req[w].fwd :
             h.name = "Connection" => h.value = "close"

\* the backend's answer is relayed: it is a success, or an HTTP error that
\* the landing page did not replace
AnswerRelayed(w) ==
    /\ BackendAnswered(w)
    /\ req[w].bk = "HTTPError" => req[w].heads # <<Landing>>

FilteredResponseNames == {"Transfer-Encoding", "CONNECTION", "content-encoding"}

\* C15: in proxy mode the client response carries the backend's status code
\* and every backend response header except Transfer-Encoding, Connection
\* and Content-Encoding, in whatever case the backend wrote them; the same
\* holds on the success path and on the relayed-HTTP-error path.
C15_StatusAndFilteredHeadersRelayed ==
    \A w \in Workers :
      AnswerRelayed(w) =>
        /\ \E i \in DOMAIN req[w].heads :
             /\ req[w].heads[i] = Relay(req[w].bstatus)
             /\ \A j \in DOMAIN req[w].heads :
                  req[w].heads[j].kind = "relay" => j = i
        /\ req[w].rhdrs = req[w].bhdrs \ FilteredResponseNames

\* a 503 of the backend with all five headers: two of them reach the client
C15_ErrorRelayedWithTwoHeaders ==
    \E w \in Workers :
      /\ AnswerRelayed(w)
      /\ req[w].bk = "HTTPError" /\ req[w].bstatus = 503
      /\ req[w].bhdrs = BackendHeaders
      /\ req[w].rhdrs = {"Content-Type", "Set-Cookie"}
      /\ req[w].heads = <<Relay(503)>>

(***************************************************************************)
(* One response per request.                                                *)
(***************************************************************************)
\* C20: in proxy mode every request produces exactly one response head: on
\* no control path is a second status line written after a status line and
\* headers were sent, also when the copy of the backend's body fails
\* mid-stream or when writing the landing page fails after its 200.
C20_ExactlyOneHead ==
    \A w \in Workers : (Proxy /\ Done(w)) => Len(req[w].heads) = 1

\* what the code does: a second head follows the first when the copy of a
\* success body fails with an error the copy does not catch (a 500 after the
\* relayed status), and when the landing page fails after its 200 (the
\* backend's 404 after it); in every other case there is one head
C20_SecondHeadOnlyAfterLateFailure ==
    \A w \in Workers :
      (Proxy /\ Done(w)) =>
        /\ Len(req[w].heads) \in {1, 2}
        /\ Len(req[w].heads) = 2 =>
             \/ /\ req[w].bk = "response" /\ req[w].copy = "backend_incomplete"
                /\ req[w].heads[2] = HeadOf(INTERNAL_SERVER_ERROR, "error")
             \/ /\ req[w].wfail
                /\ req[w].heads = <<Landing, Relay(NOT_FOUND)>>

(***************************************************************************)
(* The bind-retry loop.                                                     *)
(***************************************************************************)
PortRange == 1 .. 65535
\* the step is the reply at the prompt being taken
ReplyStep == srv_pc = "prompt" /\ srv_pc' # "prompt"
\* the reply was a number in the port range
ValidReply(r) == r[1] = "int" /\ r[2] \in PortRange
\* the reply was no number, or a number outside the port range
InvalidReply(r) == r[1] = "ValueError" \/ (r[1] = "int" /\ r[2] \notin PortRange)

\* C21: in the bind-retry loop the retry counter stays within 0..3; the port
\* changes only when the user enters an integer in 1..65535, so the port
\* being bound is in 1..65535 whenever the initial port is; an invalid reply
\* (non-numeric or out of range) leaves the port unchanged and consumes no
\* retry budget (the retry of the failed attempt is given back); an empty
\* reply exits with status 1.
C21_RetryLoopInvariants ==
    /\ [](retries \in 0 .. max_retries)
    /\ [](port_arg \in PortRange => port \in PortRange)
    /\ [][/\ port' # port =>
               (ReplyStep /\ ValidReply(last_reply') /\ port' = last_reply'[2])
          /\ (ReplyStep /\ ValidReply(last_reply')) =>
               (port' = last_reply'[2] /\ retries' = retries)
          /\ (ReplyStep /\ InvalidReply(last_reply')) =>
               /\ port' = port
               /\ retries' = retries - 1
               /\ retries' = in_use' - invalid'
               /\ srv_pc' = "bind" /\ exit_status' = None
          /\ (ReplyStep /\ last_reply'[1] = "empty") =>
               /\ srv_pc' = "finally" /\ exit_status' = 1
               /\ raised' = "none"
               /\ UNCHANGED <<port, retries>>]_vars

\* 65536 was typed after the first port conflict: the port is still the one
\* run_server was called with and the whole budget is left
C21_OutOfRangeReplyKeepsPort ==
    /\ srv_pc = "bind"
    /\ last_reply = <<"int", 65536>>
    /\ port = port_arg /\ port_arg = 1
    /\ in_use = 1 /\ invalid = 1
    /\ retries = 0

\* Enter was pressed at the prompt: run_server has exited with status 1
C21_EmptyReplyExits ==
    /\ srv_pc = "exited"
    /\ last_reply[1] = "empty"
    /\ exit_status = 1

(***************************************************************************)
(* The forwarded path.                                                      *)
(***************************************************************************)
\* the order in which the rewrite looks for an index file
RewriteOrder ==
    <<"index.php", "index.html", "index.htm",
      "default.php", "default.html", "default.htm">>
PhpNames == {"index.php", "default.php"}

\* the places in the order of the index files that exist
ExistingPlaces == {i \in DOMAIN RewriteOrder : RewriteOrder[i] \in indexFiles}

\* what "/" is to be forwarded as: the first existing name when it is a
\* .php name, else "/" itself
ExpectedRootPath ==
    IF \E i \in ExistingPlaces :
         (\A j \in ExistingPlaces : i <= j) /\ RewriteOrder[i] \in PhpNames
    THEN <<RewriteOrder[CHOOSE i \in ExistingPlaces :
                          \A j \in ExistingPlaces : i <= j]>>
    ELSE <<>>

\* C22: in proxy mode the forwarded backend path is "/<baseDirName>" followed
\* by the request path; the request path is rewritten only for "/" and only
\* to the first existing name in the order index.php, index.html, index.htm,
\* default.php, default.html, default.htm when that name ends in .php; so
\* with index.html and default.php both present "/" is forwarded unchanged,
\* and every non-root path is forwarded unchanged.
C22_ForwardedPathAndRewrite ==
    \A w \in Workers :
      Forwarded(w) =>
        /\ req[w].target = <<directory[Len(directory)]>> \o req[w].path
        /\ req[w].orig # <<>> => req[w].path = req[w].orig
        /\ req[w].orig = <<>> => req[w].path = ExpectedRootPath
        /\ (req[w].orig = <<>> /\ {"index.html", "default.php"} \subseteq indexFiles
            /\ "index.php" \notin indexFiles)
             => (req[w].path = <<>> /\ Len(req[w].target) = 1)

\* index.html and default.php are both there: "/" is forwarded as "/demo/"
C22_RootUnchangedWithHtmlFirst ==
    \E w \in Workers :
      /\ Forwarded(w) /\ req[w].orig = <<>>
      /\ indexFiles = {"index.html", "default.php"}
      /\ req[w].path = <<>>
      /\ req[w].target = <<"demo">>

\* default.php is the only index file: "/" is forwarded as "/demo/default.php"
C22_RootRewrittenToDefaultPhp ==
    \E w \in Workers :
      /\ Forwarded(w) /\ req[w].orig = <<>>
      /\ indexFiles = {"default.php", "default.htm"}
      /\ req[w].target = <<"demo", "default.php">>

=============================================================================
